---- MODULE Spec2Model ----
(***************************************************************************)
(* Model of submission/automation.py: the Importer work-unit handle and    *)
(* the Automator that enumerates, runs and reports on Importers.           *)
(*                                                                         *)
(* Two specifications are defined over the same variables:                 *)
(*   SpecImporter  one Importer driven by a client through its methods     *)
(*                 (constructor, check, should_transfer, run, describe);   *)
(*   Spec          the __main__ program: Automator('r1'),                  *)
(*                 populate_importers(), run_all_imports(), describe(),    *)
(*                 and sorted_importers() on the populated collection.     *)
(* Python's None is the string "None"; a boolean attribute that can also   *)
(* be None (_should_transfer) is one of "None", "True", "False".           *)
(* An exception is the name of its class.                                  *)
(***************************************************************************)
EXTENDS Integers, Sequences, FiniteSets, TLC

VARIABLES
    index,      \* Automator.index: the session records of the protocol
    importers,  \* Automator.importers
    pc,         \* position of the running program
    cur,        \* position of the current for-loop
    raised,     \* exception that reached the caller ("None": none)
    imp,        \* SpecImporter: the client's Importer (<<>> before construction)
    calls,      \* invocations of the external collaborators so far
    last        \* the most recent call and what it did

vars == <<index, importers, pc, cur, raised, imp, calls, last>>

None == "None"

(***************************************************************************)
(* Bounds of the model.                                                    *)
(***************************************************************************)
\* number of method calls a client makes on one Importer
MaxCalls == 4
\* number of collaborator calls (builders, check_checksums, pipeline runs)
\* that raise during one execution of the Automator program
MaxFaults == 2

(***************************************************************************)
(* The external collaborators: what a pipeline builder, a transferer's     *)
(* check_checksums() and a pipeline's run() can do.                        *)
(***************************************************************************)
\* exception classes the collaborators raise (all derive from Exception)
Exceptions == {"UnTransferrableException", "IOError"}
BuilderOutcomes == {"ok"} \cup Exceptions
ChecksumOutcomes == {"True", "False"} \cup Exceptions
PipelineOutcomes == {"ok"} \cup Exceptions

(***************************************************************************)
(* class Importer                                                          *)
(***************************************************************************)
MONTAGE == 1
BUILD_EVENTS == 2
BUILD_EPHYS == 3
CONVERT_EVENTS == 4
CONVERT_EPHYS == 5

PIPELINE_BUILDERS ==
    [t \in {MONTAGE, BUILD_EVENTS, BUILD_EPHYS, CONVERT_EVENTS, CONVERT_EPHYS} |->
        CASE t = MONTAGE -> "build_import_montage_pipeline"
          [] t = BUILD_EVENTS -> "build_events_pipeline"
          [] t = BUILD_EPHYS -> "build_split_pipeline"
          [] t = CONVERT_EVENTS -> "build_convert_events_pipeline"
          [] t = CONVERT_EPHYS -> "build_convert_eeg_pipeline"]

LABELS ==
    [t \in {MONTAGE, BUILD_EVENTS, BUILD_EPHYS, CONVERT_EVENTS, CONVERT_EPHYS} |->
        CASE t = MONTAGE -> "Montage Importer"
          [] t = BUILD_EVENTS -> "Events Builder"
          [] t = BUILD_EPHYS -> "Ephys Builder"
          [] t = CONVERT_EVENTS -> "Events Converter"
          [] t = CONVERT_EPHYS -> "Ephys Converter"]

ErrorTypes == {"init", "check", "transfer", "processing"}

\* Importer.set_error without line 109: the slot is written, the flag is not
set_error_slot_only(self, error_type, error) ==
    [self EXCEPT !.errors = [@ EXCEPT ![error_type] = error]]

\* Importer.set_error
set_error(self, error_type, error) ==
    [self EXCEPT !.errors = [@ EXCEPT ![error_type] = error], !.errored = TRUE]

\* Importer.__init__ without the try: what the builder raises leaves the constructor
Importer_propagates(type, kwargs, builder) ==
    IF type \notin DOMAIN PIPELINE_BUILDERS
    THEN [obj |-> <<>>, raised |-> "UnTransferrableException", built |-> FALSE]
    ELSE IF "subject" \notin DOMAIN kwargs \/ builder # "ok"
    THEN [obj |-> <<>>, raised |-> IF "subject" \notin DOMAIN kwargs THEN "KeyError" ELSE builder,
          built |-> "subject" \in DOMAIN kwargs]
    ELSE [obj |-> <<[type |-> type, label |-> LABELS[type], kwargs |-> kwargs,
                     subject |-> kwargs.subject,
                     errors |-> [k \in {"init", "check", "transfer", "processing"} |-> None],
                     _should_transfer |-> "None", errored |-> FALSE, processed |-> FALSE,
                     transferred |-> FALSE, pipeline |-> "pipeline",
                     transferer |-> "transferer", initialized |-> TRUE]>>,
          raised |-> None, built |-> TRUE]

\* Importer.__init__ with the type looked up inside the try: an unregistered
\* type ends as an init error of a handle that is handed to the caller
Importer_late_lookup(type, kwargs, builder) ==
    IF "subject" \notin DOMAIN kwargs
    THEN [obj |-> <<>>, raised |-> "KeyError", built |-> FALSE]
    ELSE LET failure == IF type \notin DOMAIN PIPELINE_BUILDERS THEN "KeyError" ELSE builder
             self == [type |-> type, label |-> "", kwargs |-> kwargs,
                      subject |-> kwargs.subject,
                      errors |-> [k \in {"init", "check", "transfer", "processing"} |->
                                     IF k = "init" /\ failure # "ok" THEN failure ELSE None],
                      _should_transfer |-> "None", errored |-> failure # "ok",
                      processed |-> FALSE, transferred |-> FALSE,
                      pipeline |-> IF failure = "ok" THEN "pipeline" ELSE None,
                      transferer |-> IF failure = "ok" THEN "transferer" ELSE None,
                      initialized |-> failure = "ok"]
         IN  [obj |-> <<self>>, raised |-> None, built |-> type \in DOMAIN PIPELINE_BUILDERS]

\* Importer.__init__: the object (obj is <<>> when the constructor raised),
\* the exception that left the constructor, and whether the builder was called.
Importer(type, kwargs, builder) ==
    IF type \notin DOMAIN PIPELINE_BUILDERS
    THEN [obj |-> <<>>, raised |-> "UnTransferrableException", built |-> FALSE]
    ELSE IF "subject" \notin DOMAIN kwargs
    THEN [obj |-> <<>>, raised |-> "KeyError", built |-> FALSE]
    ELSE LET self == [type |-> type,
                      label |-> LABELS[type],
                      kwargs |-> kwargs,
                      subject |-> kwargs.subject,
                      errors |-> [k \in ErrorTypes |-> None],
                      _should_transfer |-> "None",
                      errored |-> FALSE,
                      processed |-> FALSE,
                      transferred |-> FALSE,
                      pipeline |-> None,
                      transferer |-> None,
                      initialized |-> FALSE]
         IN  IF builder = "ok"
             THEN [obj |-> <<[self EXCEPT !.pipeline = "pipeline",
                                          !.transferer = "transferer",
                                          !.initialized = TRUE]>>,
                   raised |-> None, built |-> TRUE]
             ELSE [obj |-> <<[set_error(self, "init", builder)
                                EXCEPT !.pipeline = None,
                                       !.transferer = None,
                                       !.initialized = FALSE]>>,
                   raised |-> None, built |-> TRUE]

\* Importer.check without line 122: a failed check leaves _should_transfer alone
check_keeps(self, checksum) ==
    LET outcome == IF self.transferer = None THEN "AttributeError" ELSE checksum
        invoked == self.transferer # None
    IN  IF outcome \in {"True", "False"}
        THEN [self |-> [self EXCEPT !._should_transfer = outcome],
              ret |-> outcome, raised |-> None, invoked |-> invoked]
        ELSE [self |-> set_error(self, "check", outcome),
              ret |-> self._should_transfer, raised |-> None, invoked |-> invoked]

\* Importer.check guarded like the property: a memoized value is returned
\* without asking the transferer again
check_memoized(self, checksum) ==
    IF self._should_transfer # "None"
    THEN [self |-> self, ret |-> self._should_transfer, raised |-> None, invoked |-> FALSE]
    ELSE LET outcome == IF self.transferer = None THEN "AttributeError" ELSE checksum
             invoked == self.transferer # None
         IN  IF outcome \in {"True", "False"}
             THEN [self |-> [self EXCEPT !._should_transfer = outcome],
                   ret |-> outcome, raised |-> None, invoked |-> invoked]
             ELSE [self |-> [set_error(self, "check", outcome)
                               EXCEPT !._should_transfer = "False"],
                   ret |-> "False", raised |-> None, invoked |-> invoked]

\* Importer.check that forgets an earlier check error when the checksums are
\* computed
check_clears(self, checksum) ==
    LET outcome == IF self.transferer = None THEN "AttributeError" ELSE checksum
        invoked == self.transferer # None
        errors == [self.errors EXCEPT !["check"] = None]
    IN  IF outcome \in {"True", "False"}
        THEN [self |-> [self EXCEPT !._should_transfer = outcome,
                                    !.errors = errors,
                                    !.errored = \E k \in DOMAIN errors : errors[k] # None],
              ret |-> outcome, raised |-> None, invoked |-> invoked]
        ELSE [self |-> [set_error(self, "check", outcome) EXCEPT !._should_transfer = "False"],
              ret |-> "False", raised |-> None, invoked |-> invoked]

\* Importer.check: the handle after the call, the value returned, the exception
\* that left the call, and whether transferer.check_checksums() was entered.
\* With transferer = None the attribute lookup raises AttributeError.
check(self, checksum) ==
    LET outcome == IF self.transferer = None THEN "AttributeError" ELSE checksum
        invoked == self.transferer # None
    IN  IF outcome \in {"True", "False"}
        THEN [self |-> [self EXCEPT !._should_transfer = outcome],
              ret |-> outcome, raised |-> None, invoked |-> invoked]
        ELSE [self |-> [set_error(self, "check", outcome) EXCEPT !._should_transfer = "False"],
              ret |-> "False", raised |-> None, invoked |-> invoked]

\* Importer.should_transfer without the memo test: every read of an initialized
\* handle checks again
should_transfer_uncached(self, checksum) ==
    IF self.initialized
    THEN LET c == check(self, checksum)
         IN  [self |-> c.self, ret |-> c.self._should_transfer,
              raised |-> c.raised, invoked |-> c.invoked]
    ELSE [self |-> self, ret |-> self._should_transfer,
          raised |-> None, invoked |-> FALSE]

\* Importer.should_transfer (property)
should_transfer(self, checksum) ==
    IF self.initialized /\ self._should_transfer = "None"
    THEN LET c == check(self, checksum)
         IN  [self |-> c.self, ret |-> c.self._should_transfer,
              raised |-> c.raised, invoked |-> c.invoked]
    ELSE [self |-> self, ret |-> self._should_transfer,
          raised |-> None, invoked |-> FALSE]

\* Importer.run without the second except clause: any exception but
\* UnTransferrableException leaves run()
run_propagates(self, pipeline) ==
    LET outcome == IF self.pipeline = None THEN "AttributeError" ELSE pipeline
        invoked == self.pipeline # None
    IN  IF outcome = "ok"
        THEN [self |-> [self EXCEPT !.processed = TRUE, !.transferred = TRUE],
              raised |-> None, invoked |-> invoked]
        ELSE IF outcome = "UnTransferrableException"
        THEN [self |-> set_error(self, "transfer", outcome),
              raised |-> None, invoked |-> invoked]
        ELSE [self |-> self, raised |-> outcome, invoked |-> invoked]

\* Importer.run with one except clause: every failure is a transfer error
run_one_slot(self, pipeline) ==
    LET outcome == IF self.pipeline = None THEN "AttributeError" ELSE pipeline
        invoked == self.pipeline # None
    IN  IF outcome = "ok"
        THEN [self |-> [self EXCEPT !.processed = TRUE, !.transferred = TRUE],
              raised |-> None, invoked |-> invoked]
        ELSE [self |-> set_error(self, "transfer", outcome),
              raised |-> None, invoked |-> invoked]

\* Importer.run that withdraws the flags when the pipeline fails
run_resets(self, pipeline) ==
    LET outcome == IF self.pipeline = None THEN "AttributeError" ELSE pipeline
        invoked == self.pipeline # None
        failed == [self EXCEPT !.processed = FALSE, !.transferred = FALSE]
    IN  IF outcome = "ok"
        THEN [self |-> [self EXCEPT !.processed = TRUE, !.transferred = TRUE],
              raised |-> None, invoked |-> invoked]
        ELSE IF outcome = "UnTransferrableException"
        THEN [self |-> set_error(failed, "transfer", outcome),
              raised |-> None, invoked |-> invoked]
        ELSE [self |-> set_error(failed, "processing", outcome),
              raised |-> None, invoked |-> invoked]

\* Importer.run: with pipeline = None the attribute lookup raises AttributeError,
\* which the second except clause catches.
run(self, pipeline) ==
    LET outcome == IF self.pipeline = None THEN "AttributeError" ELSE pipeline
        invoked == self.pipeline # None
    IN  IF outcome = "ok"
        THEN [self |-> [self EXCEPT !.processed = TRUE, !.transferred = TRUE],
              raised |-> None, invoked |-> invoked]
        ELSE IF outcome = "UnTransferrableException"
        THEN [self |-> set_error(self, "transfer", outcome),
              raised |-> None, invoked |-> invoked]
        ELSE [self |-> set_error(self, "processing", outcome),
              raised |-> None, invoked |-> invoked]

\* Importer.describe_errors: one line per non-null slot, in the order the code
\* tests them.  A line is a pair <<fixed text, formatted value>>.
describe_errors(self) ==
    LET line(slot, text) == IF self.errors[slot] # None
                            THEN << <<text, self.errors[slot]>> >> ELSE <<>>
    IN  line("init", "Initialization error: ")
        \o line("check", "Checksum calculation error: ")
        \o line("transfer", "Transfer error: ")
        \o line("processing", "Processing error: ")

\* Importer.describe: the text is the sequence of its lines (joined by newlines
\* in the code).  The transfer status reads the should_transfer property, so the
\* call can enter check(): self is the handle after the call and invoked tells
\* whether transferer.check_checksums() was entered.
describe(self, checksum) ==
    LET label == <<self.label, self.kwargs>>
        initialization_status ==
            <<"Initialization status: ", IF self.initialized THEN "success" ELSE "failure">>
        st == should_transfer(self, checksum)
        h == st.self
        transfer_status ==
            <<"Transfer status: ",
              IF st.ret = "True"
              THEN IF h.errors["transfer"] # None THEN "necessary, failed"
                   ELSE IF ~h.transferred THEN "necessary, incomplete"
                   ELSE "complete"
              ELSE IF h.errors["check"] # None THEN "failed to compute checksum"
              ELSE "not necessary">>
        processed_status ==
            IF h.transferred
            THEN << <<"Processed status: ",
                      IF h.errors["processing"] # None THEN "necessary, failed"
                      ELSE IF ~h.processed THEN "necessary, incomplete"
                      ELSE "complete">> >>
            ELSE <<>>
        error_status == IF h.errored THEN describe_errors(h) ELSE <<>>
    IN  [self |-> h,
         ret |-> <<label, initialization_status, transfer_status>>
                 \o processed_status \o error_status,
         raised |-> st.raised, invoked |-> st.invoked]

(***************************************************************************)
(* SpecImporter: a client constructs one Importer and calls its methods.   *)
(***************************************************************************)
\* the constructor arguments a client tries: every registered type and two
\* unregistered ones; identity parameters with and without a subject
ClientTypes == 0 .. 6
ClientKwargs ==
    { [subject |-> "R1001P", montage |-> "0.0", protocol |-> "r1", code |-> "R1001P"],
      [montage |-> "0.0", protocol |-> "r1", code |-> "R1001P"] }

\* builder, check_checksums, pipeline_run: how often each collaborator was
\* entered; methods: the client's method calls; faults: collaborator calls that
\* raised; run: the positions in self.importers on which run() was called
\* check: the client's explicit check() calls
NoCalls == [builder |-> 0, check_checksums |-> 0, pipeline_run |-> 0, methods |-> 0,
            faults |-> 0, run |-> <<>>, check |-> 0]
NoCall == [op |-> "none", arg |-> None, before |-> <<>>, ret |-> None, invoked |-> FALSE]

InitImporter ==
    /\ index = {}
    /\ importers = <<>>
    /\ pc = "client"
    /\ cur = 0
    /\ raised = None
    /\ imp = <<>>
    /\ calls = NoCalls
    /\ last = NoCall

\* imp = Importer(type, **kwargs)
Construct ==
    /\ pc = "client"
    /\ imp = <<>>
    /\ raised = None
    /\ \E type \in ClientTypes, kwargs \in ClientKwargs, builder \in BuilderOutcomes :
         LET r == Importer(type, kwargs, builder)
         IN  /\ imp' = r.obj
             /\ raised' = r.raised
             /\ calls' = [calls EXCEPT !.builder = @ + (IF r.built THEN 1 ELSE 0)]
             /\ last' = [op |-> "Importer", arg |-> <<type, "subject" \in DOMAIN kwargs, builder>>,
                         before |-> <<>>, ret |-> None, invoked |-> r.built]
    /\ UNCHANGED <<index, importers, pc, cur>>

\* imp.check()
Check ==
    /\ pc = "client"
    /\ imp # <<>>
    /\ calls.methods < MaxCalls
    /\ \E checksum \in ChecksumOutcomes :
         LET r == check(imp[1], checksum)
         IN  /\ imp' = <<r.self>>
             /\ raised' = r.raised
             /\ calls' = [calls EXCEPT !.methods = @ + 1, !.check = @ + 1,
                                       !.check_checksums = @ + (IF r.invoked THEN 1 ELSE 0)]
             /\ last' = [op |-> "check", arg |-> checksum, before |-> imp,
                         ret |-> r.ret, invoked |-> r.invoked]
    /\ UNCHANGED <<index, importers, pc, cur>>

\* imp.should_transfer
ReadShouldTransfer ==
    /\ pc = "client"
    /\ imp # <<>>
    /\ calls.methods < MaxCalls
    /\ \E checksum \in ChecksumOutcomes :
         LET r == should_transfer(imp[1], checksum)
         IN  /\ imp' = <<r.self>>
             /\ raised' = r.raised
             /\ calls' = [calls EXCEPT !.methods = @ + 1,
                                       !.check_checksums = @ + (IF r.invoked THEN 1 ELSE 0)]
             /\ last' = [op |-> "should_transfer", arg |-> checksum, before |-> imp,
                         ret |-> r.ret, invoked |-> r.invoked]
    /\ UNCHANGED <<index, importers, pc, cur>>

\* imp.run()
Run ==
    /\ pc = "client"
    /\ imp # <<>>
    /\ calls.methods < MaxCalls
    /\ \E pipeline \in PipelineOutcomes :
         LET r == run(imp[1], pipeline)
         IN  /\ imp' = <<r.self>>
             /\ raised' = r.raised
             /\ calls' = [calls EXCEPT !.methods = @ + 1,
                                       !.pipeline_run = @ + (IF r.invoked THEN 1 ELSE 0)]
             /\ last' = [op |-> "run", arg |-> pipeline, before |-> imp,
                         ret |-> None, invoked |-> r.invoked]
    /\ UNCHANGED <<index, importers, pc, cur>>

\* imp.describe()
DescribeImporter ==
    /\ pc = "client"
    /\ imp # <<>>
    /\ calls.methods < MaxCalls
    /\ \E checksum \in ChecksumOutcomes :
         LET r == describe(imp[1], checksum)
         IN  /\ imp' = <<r.self>>
             /\ raised' = r.raised
             /\ calls' = [calls EXCEPT !.methods = @ + 1,
                                       !.check_checksums = @ + (IF r.invoked THEN 1 ELSE 0)]
             /\ last' = [op |-> "describe", arg |-> IF r.invoked THEN checksum ELSE None,
                         before |-> imp, ret |-> r.ret, invoked |-> r.invoked]
    /\ UNCHANGED <<index, importers, pc, cur>>

NextImporter == Construct \/ Check \/ ReadShouldTransfer \/ Run \/ DescribeImporter

SpecImporter == InitImporter /\ [][NextImporter]_vars

(***************************************************************************)
(* The hierarchical index (JsonIndexReader) as the Automator uses it: a    *)
(* set of session records, each with subject, experiment, session,         *)
(* montage and subject_alias, and with original_session and                *)
(* original_experiment only when the session was remapped.                 *)
(***************************************************************************)
\* the order in which the index lists names (Python's string order)
SubjectOrder == <<"R1001P", "R1002P">>
ExperimentOrder == <<"FR1", "PS1", "catFR1", "r1">>
MontageOrder == <<"0.0", "0.1">>
SessionOrder == <<0, 1, 2, 3>>

\* montage.split('.')[1]
MontageNum(montage) == CASE montage = "0.0" -> "0" [] montage = "0.1" -> "1"

\* the elements of S, listed in the order of order
Listed(order, S) == SelectSeq(order, LAMBDA x : x \in S)
\* max() of a non-empty set, in the order of order
MaxIn(order, S) == LET l == Listed(order, S) IN l[Len(l)]

RECURSIVE Flatten(_)
Flatten(ss) == IF ss = <<>> THEN <<>> ELSE Head(ss) \o Flatten(Tail(ss))

\* index.filtered(field=value)
filtered(idx, field, value) == {r \in idx : r[field] = value}
\* index.subjects(), index.experiments(), index.sessions(), index.montages()
subjects(idx) == Listed(SubjectOrder, {r.subject : r \in idx})
experiments(idx) == Listed(ExperimentOrder, {r.experiment : r \in idx})
sessions(idx) == Listed(SessionOrder, {r.session : r \in idx})
montages(idx) == Listed(MontageOrder, {r.montage : r \in idx})
\* index.get_value(field) raises KeyError when no record has the field
has_value(idx, field) == \E r \in idx : field \in DOMAIN r
get_value(idx, field) == (CHOOSE r \in idx : field \in DOMAIN r)[field]

\* the indexes the program is run on
S1 == [subject |-> "R1001P", experiment |-> "FR1", session |-> 0, montage |-> "0.0",
       subject_alias |-> "R1001P"]
S2 == [subject |-> "R1001P", experiment |-> "FR1", session |-> 1, montage |-> "0.1",
       subject_alias |-> "R1001P_1"]
S3 == [subject |-> "R1001P", experiment |-> "catFR1", session |-> 0, montage |-> "0.0",
       subject_alias |-> "R1001P", original_session |-> 2, original_experiment |-> "FR1"]
S4 == [subject |-> "R1002P", experiment |-> "PS1", session |-> 1, montage |-> "0.0",
       subject_alias |-> "R1002P", original_session |-> 0]
S5 == [subject |-> "R1002P", experiment |-> "r1", session |-> 1, montage |-> "0.0",
       subject_alias |-> "R1002P"]
S6 == [subject |-> "R1002P", experiment |-> "r1", session |-> 0, montage |-> "0.0",
       subject_alias |-> "R1002P"]
S7 == [subject |-> "R1002P", experiment |-> "FR1", session |-> 0, montage |-> "0.1",
       subject_alias |-> "R1002P_1"]
S8 == [subject |-> "R1001P", experiment |-> "r1", session |-> 2, montage |-> "0.0",
       subject_alias |-> "R1001P", original_session |-> 0, original_experiment |-> "FR1"]
Indexes == { {}, {S1}, {S1, S2}, {S1, S3}, {S4}, {S1, S4}, {S5}, {S6, S7}, {S8} }

(***************************************************************************)
(* class Automator                                                         *)
(***************************************************************************)
EXPERIMENTS == [r1 |-> <<"FR1", "FR2", "FR3", "catFR1", "catFR2", "catFR3",
                         "PAL1", "PAL2", "PAL3", "TH1", "TH2", "TH3",
                         "PS1", "PS2", "PS3">>]
MATH_TASKS == <<"FR1", "FR2", "FR3", "catFR1", "catFR2", "catFR3",
                "PAL1", "PAL2", "PAL3", "ltpFR", "ltpFR2">>
INCLUDE_TRANSFERRED == FALSE
protocol == "r1"

\* x in a tuple
In(x, tuple) == \E i \in DOMAIN tuple : tuple[i] = x
\* iterating over a dict yields its keys
Keys(dict) ==
    CHOOSE s \in [1 .. Cardinality(DOMAIN dict) -> DOMAIN dict] :
        {s[i] : i \in DOMAIN s} = DOMAIN dict

\* Automator.session_indexes: the (subject, experiment, session) triples in
\* the order they are yielded
session_indexes(idx) ==
    Flatten([e \in DOMAIN experiments(idx) |->
        LET experiment == experiments(idx)[e]
            exp_index == filtered(idx, "experiment", experiment)
        IN  Flatten([s \in DOMAIN subjects(exp_index) |->
                LET subject == subjects(exp_index)[s]
                    subj_index == filtered(exp_index, "subject", subject)
                IN  [n \in DOMAIN sessions(subj_index) |->
                        [subject |-> subject, experiment |-> experiment,
                         session |-> sessions(subj_index)[n]]]])])

\* Automator.build_existing_event_importer_kwargs; sess_index is the
\* sub-index of the one session
build_existing_event_importer_kwargs(subject, experiment, session, sess_index, do_compare) ==
    LET montage == montages(sess_index)[1]
        do_math == In(experiment, MATH_TASKS)
        code == get_value(sess_index, "subject_alias")
        original_session == IF has_value(sess_index, "original_session")
                            THEN get_value(sess_index, "original_session")
                            ELSE session
        original_experiment == IF has_value(sess_index, "original_experiment")
                               THEN get_value(sess_index, "original_experiment")
                               ELSE experiment
    IN  [subject |-> subject, montage |-> montage, experiment |-> original_experiment,
         session |-> session, new_experiment |-> experiment,
         original_session |-> original_session, do_math |-> do_math,
         protocol |-> protocol, code |-> code, do_compare |-> do_compare]

\* Automator.add_existing_events_importers with line 203 appending the importer
add_existing_events_importers_keeps_unchanged(idx, item, b1, k1, b2, k2) ==
    LET sess_index == filtered(filtered(filtered(idx, "experiment", item.experiment),
                                        "subject", item.subject), "session", item.session)
        kwargs == build_existing_event_importer_kwargs(item.subject, item.experiment,
                                                       item.session, sess_index, TRUE)
        n1 == Importer(BUILD_EVENTS, kwargs, b1)
    IN  IF n1.raised # None
        THEN [built |-> <<>>, append |-> <<>>, raised |-> n1.raised, checks |-> <<>>]
        ELSE
        LET c1 == check(n1.obj[1], k1)
            importer == c1.self
        IN  IF c1.ret # "True" /\ ~importer.errored
            THEN [built |-> <<importer>>, append |-> <<importer>>, raised |-> None,
                  checks |-> <<c1.invoked>>]
            ELSE IF ~importer.errored
            THEN [built |-> <<importer>>, append |-> <<importer>>, raised |-> None,
                  checks |-> <<c1.invoked>>]
            ELSE
            LET n2 == Importer(CONVERT_EVENTS, kwargs, b2)
            IN  IF n2.raised # None
                THEN [built |-> <<importer>>, append |-> <<>>, raised |-> n2.raised,
                      checks |-> <<c1.invoked>>]
                ELSE
                LET c2 == check(n2.obj[1], k2)
                    importer2 == c2.self
                    both == [built |-> <<importer, importer2>>, raised |-> None,
                             checks |-> <<c1.invoked, c2.invoked>>]
                IN  IF c2.ret # "True" /\ ~importer2.errored
                    THEN both @@ [append |-> <<>>]
                    ELSE IF ~importer.errored
                    THEN both @@ [append |-> <<importer>>]
                    ELSE IF ~importer2.errored
                    THEN both @@ [append |-> <<importer2>>]
                    ELSE both @@ [append |-> <<importer>>]

\* Automator.add_existing_events_importers with line 209 appending the errored importer
add_existing_events_importers_keeps_failure(idx, item, b1, k1, b2, k2) ==
    LET sess_index == filtered(filtered(filtered(idx, "experiment", item.experiment),
                                        "subject", item.subject), "session", item.session)
        kwargs == build_existing_event_importer_kwargs(item.subject, item.experiment,
                                                       item.session, sess_index, TRUE)
        n1 == Importer(BUILD_EVENTS, kwargs, b1)
    IN  IF n1.raised # None
        THEN [built |-> <<>>, append |-> <<>>, raised |-> n1.raised, checks |-> <<>>]
        ELSE
        LET c1 == check(n1.obj[1], k1)
            importer == c1.self
        IN  IF c1.ret # "True" /\ ~importer.errored
            THEN [built |-> <<importer>>, append |-> <<>>, raised |-> None,
                  checks |-> <<c1.invoked>>]
            ELSE IF ~importer.errored
            THEN [built |-> <<importer>>, append |-> <<importer>>, raised |-> None,
                  checks |-> <<c1.invoked>>]
            ELSE
            LET n2 == Importer(CONVERT_EVENTS, kwargs, b2)
            IN  IF n2.raised # None
                THEN [built |-> <<importer>>, append |-> <<>>, raised |-> n2.raised,
                      checks |-> <<c1.invoked>>]
                ELSE
                LET c2 == check(n2.obj[1], k2)
                    importer2 == c2.self
                    both == [built |-> <<importer, importer2>>, raised |-> None,
                             checks |-> <<c1.invoked, c2.invoked>>]
                IN  IF c2.ret # "True" /\ ~importer2.errored
                    THEN both @@ [append |-> <<importer>>]
                    ELSE IF ~importer.errored
                    THEN both @@ [append |-> <<importer>>]
                    ELSE IF ~importer2.errored
                    THEN both @@ [append |-> <<importer2>>]
                    ELSE both @@ [append |-> <<importer>>]

\* Automator.add_existing_events_importers with line 214 appending importer
add_existing_events_importers_prefers_build(idx, item, b1, k1, b2, k2) ==
    LET sess_index == filtered(filtered(filtered(idx, "experiment", item.experiment),
                                        "subject", item.subject), "session", item.session)
        kwargs == build_existing_event_importer_kwargs(item.subject, item.experiment,
                                                       item.session, sess_index, TRUE)
        n1 == Importer(BUILD_EVENTS, kwargs, b1)
    IN  IF n1.raised # None
        THEN [built |-> <<>>, append |-> <<>>, raised |-> n1.raised, checks |-> <<>>]
        ELSE
        LET c1 == check(n1.obj[1], k1)
            importer == c1.self
        IN  IF c1.ret # "True" /\ ~importer.errored
            THEN [built |-> <<importer>>, append |-> <<>>, raised |-> None,
                  checks |-> <<c1.invoked>>]
            ELSE IF ~importer.errored
            THEN [built |-> <<importer>>, append |-> <<importer>>, raised |-> None,
                  checks |-> <<c1.invoked>>]
            ELSE
            LET n2 == Importer(CONVERT_EVENTS, kwargs, b2)
            IN  IF n2.raised # None
                THEN [built |-> <<importer>>, append |-> <<>>, raised |-> n2.raised,
                      checks |-> <<c1.invoked>>]
                ELSE
                LET c2 == check(n2.obj[1], k2)
                    importer2 == c2.self
                    both == [built |-> <<importer, importer2>>, raised |-> None,
                             checks |-> <<c1.invoked, c2.invoked>>]
                IN  IF c2.ret # "True" /\ ~importer2.errored
                    THEN both @@ [append |-> <<>>]
                    ELSE IF ~importer.errored
                    THEN both @@ [append |-> <<importer>>]
                    ELSE IF ~importer2.errored
                    THEN both @@ [append |-> <<importer>>]
                    ELSE both @@ [append |-> <<importer>>]

\* Automator.add_existing_events_importers with line 216 appending importer2
add_existing_events_importers_keeps2(idx, item, b1, k1, b2, k2) ==
    LET sess_index == filtered(filtered(filtered(idx, "experiment", item.experiment),
                                        "subject", item.subject), "session", item.session)
        kwargs == build_existing_event_importer_kwargs(item.subject, item.experiment,
                                                       item.session, sess_index, TRUE)
        n1 == Importer(BUILD_EVENTS, kwargs, b1)
    IN  IF n1.raised # None
        THEN [built |-> <<>>, append |-> <<>>, raised |-> n1.raised, checks |-> <<>>]
        ELSE
        LET c1 == check(n1.obj[1], k1)
            importer == c1.self
        IN  IF c1.ret # "True" /\ ~importer.errored
            THEN [built |-> <<importer>>, append |-> <<>>, raised |-> None,
                  checks |-> <<c1.invoked>>]
            ELSE IF ~importer.errored
            THEN [built |-> <<importer>>, append |-> <<importer>>, raised |-> None,
                  checks |-> <<c1.invoked>>]
            ELSE
            LET n2 == Importer(CONVERT_EVENTS, kwargs, b2)
            IN  IF n2.raised # None
                THEN [built |-> <<importer>>, append |-> <<>>, raised |-> n2.raised,
                      checks |-> <<c1.invoked>>]
                ELSE
                LET c2 == check(n2.obj[1], k2)
                    importer2 == c2.self
                    both == [built |-> <<importer, importer2>>, raised |-> None,
                             checks |-> <<c1.invoked, c2.invoked>>]
                IN  IF c2.ret # "True" /\ ~importer2.errored
                    THEN both @@ [append |-> <<>>]
                    ELSE IF ~importer.errored
                    THEN both @@ [append |-> <<importer>>]
                    ELSE IF ~importer2.errored
                    THEN both @@ [append |-> <<importer2>>]
                    ELSE both @@ [append |-> <<importer2>>]

\* One iteration of the loop of Automator.add_existing_events_importers for
\* the session item: the Importers built (after their check), the ones
\* appended to self.importers, and the exception that left the iteration.
\* b1, k1 (b2, k2) are what the builder and check_checksums of the
\* BUILD_EVENTS (CONVERT_EVENTS) Importer do.
add_existing_events_importers(idx, item, b1, k1, b2, k2) ==
    LET sess_index == filtered(filtered(filtered(idx, "experiment", item.experiment),
                                        "subject", item.subject), "session", item.session)
        kwargs == build_existing_event_importer_kwargs(item.subject, item.experiment,
                                                       item.session, sess_index, TRUE)
        n1 == Importer(BUILD_EVENTS, kwargs, b1)
    IN  IF n1.raised # None
        THEN [built |-> <<>>, append |-> <<>>, raised |-> n1.raised, checks |-> <<>>]
        ELSE
        LET c1 == check(n1.obj[1], k1)
            importer == c1.self
        IN  IF c1.ret # "True" /\ ~importer.errored
            THEN [built |-> <<importer>>, append |-> <<>>, raised |-> None,
                  checks |-> <<c1.invoked>>]
            ELSE IF ~importer.errored
            THEN [built |-> <<importer>>, append |-> <<importer>>, raised |-> None,
                  checks |-> <<c1.invoked>>]
            ELSE
            LET n2 == Importer(CONVERT_EVENTS, kwargs, b2)
            IN  IF n2.raised # None
                THEN [built |-> <<importer>>, append |-> <<>>, raised |-> n2.raised,
                      checks |-> <<c1.invoked>>]
                ELSE
                LET c2 == check(n2.obj[1], k2)
                    importer2 == c2.self
                    both == [built |-> <<importer, importer2>>, raised |-> None,
                             checks |-> <<c1.invoked, c2.invoked>>]
                IN  IF c2.ret # "True" /\ ~importer2.errored
                    THEN both @@ [append |-> <<>>]
                    ELSE IF ~importer.errored
                    THEN both @@ [append |-> <<importer>>]
                    ELSE IF ~importer2.errored
                    THEN both @@ [append |-> <<importer2>>]
                    ELSE both @@ [append |-> <<importer>>]

\* the (subject, montage) pairs of Automator.add_existing_montage_importers,
\* in loop order
montage_items(idx) ==
    Flatten([s \in DOMAIN subjects(idx) |->
        LET subject == subjects(idx)[s]
            ms == montages(filtered(idx, "subject", subject))
        IN  [m \in DOMAIN ms |-> [subject |-> subject, montage |-> ms[m]]]])

\* index.get_value('subject_alias', subject=..., montage=...)
subject_alias(idx, subject, montage_num) ==
    get_value({r \in filtered(idx, "subject", subject) : MontageNum(r.montage) = montage_num},
              "subject_alias")

\* Automator.add_existing_montage_importers with line 164 testing check() only
add_existing_montage_importers_only_changed(idx, item, b, k) ==
    LET code == subject_alias(idx, item.subject, MontageNum(item.montage))
        n == Importer(MONTAGE, [subject |-> item.subject, montage |-> item.montage,
                                protocol |-> protocol, code |-> code], b)
    IN  IF n.raised # None
        THEN [built |-> <<>>, append |-> <<>>, raised |-> n.raised, checks |-> <<>>]
        ELSE
        LET c == check(n.obj[1], k)
            importer == c.self
        IN  [built |-> <<importer>>,
             append |-> IF c.ret = "True" THEN <<importer>> ELSE <<>>,
             raised |-> None, checks |-> <<c.invoked>>]

\* One iteration of the inner loop of Automator.add_existing_montage_importers
add_existing_montage_importers(idx, item, b, k) ==
    LET code == subject_alias(idx, item.subject, MontageNum(item.montage))
        n == Importer(MONTAGE, [subject |-> item.subject, montage |-> item.montage,
                                protocol |-> protocol, code |-> code], b)
    IN  IF n.raised # None
        THEN [built |-> <<>>, append |-> <<>>, raised |-> n.raised, checks |-> <<>>]
        ELSE
        LET c == check(n.obj[1], k)
            importer == c.self
        IN  [built |-> <<importer>>,
             append |-> IF c.ret = "True" \/ importer.errored \/ INCLUDE_TRANSFERRED
                        THEN <<importer>> ELSE <<>>,
             raised |-> None, checks |-> <<c.invoked>>]

\* the (subject, experiment) pairs of Automator.add_future_events_importers,
\* in loop order; the inner loop iterates over the dict EXPERIMENTS
future_items(idx) ==
    Flatten([s \in DOMAIN subjects(idx) |->
        [e \in DOMAIN Keys(EXPERIMENTS) |->
            [subject |-> subjects(idx)[s], experiment |-> Keys(EXPERIMENTS)[e]]]])

\* Automator.add_future_events_importers without lines 229-232: the recorded
\* original_session is not looked up
future_kwargs_no_remap(idx, subject, experiment) ==
    LET subj_index == filtered(idx, "subject", subject)
        max_montage == MaxIn(MontageOrder, {r.montage : r \in subj_index})
        exp_index == filtered(filtered(subj_index, "montage", max_montage),
                              "experiment", experiment)
        has_sessions == sessions(exp_index) # <<>>
        max_session == MaxIn(SessionOrder, {r.session : r \in exp_index})
        last_index == filtered(exp_index, "session", max_session)
        original_session ==
            IF has_sessions
            THEN max_session + 1
            ELSE 0
        original_experiment ==
            IF has_sessions /\ has_value(last_index, "original_experiment")
            THEN get_value(last_index, "original_experiment")
            ELSE experiment
        session == IF has_sessions THEN max_session + 1 ELSE 0
        do_math == In(experiment, MATH_TASKS)
        code == subject_alias(subj_index, subject, MontageNum(max_montage))
    IN  [subject |-> subject, montage |-> max_montage, experiment |-> original_experiment,
         session |-> session, new_experiment |-> experiment,
         original_session |-> original_session, do_math |-> do_math,
         protocol |-> protocol, code |-> code, do_compare |-> FALSE]

\* the identity parameters Automator.add_future_events_importers computes
future_kwargs(idx, subject, experiment) ==
    LET subj_index == filtered(idx, "subject", subject)
        max_montage == MaxIn(MontageOrder, {r.montage : r \in subj_index})
        exp_index == filtered(filtered(subj_index, "montage", max_montage),
                              "experiment", experiment)
        has_sessions == sessions(exp_index) # <<>>
        max_session == MaxIn(SessionOrder, {r.session : r \in exp_index})
        last_index == filtered(exp_index, "session", max_session)
        original_session ==
            IF has_sessions
            THEN IF has_value(last_index, "original_session")
                 THEN get_value(last_index, "original_session") + 1
                 ELSE max_session + 1
            ELSE 0
        original_experiment ==
            IF has_sessions /\ has_value(last_index, "original_experiment")
            THEN get_value(last_index, "original_experiment")
            ELSE experiment
        session == IF has_sessions THEN max_session + 1 ELSE 0
        do_math == In(experiment, MATH_TASKS)
        code == subject_alias(subj_index, subject, MontageNum(max_montage))
    IN  [subject |-> subject, montage |-> max_montage, experiment |-> original_experiment,
         session |-> session, new_experiment |-> experiment,
         original_session |-> original_session, do_math |-> do_math,
         protocol |-> protocol, code |-> code, do_compare |-> FALSE]

\* Automator.add_future_events_importers with the retention test of the montage
\* phase: an errored Importer is kept too
add_future_events_importers_keeps_errored(idx, item, b, k) ==
    LET n == Importer(BUILD_EVENTS, future_kwargs(idx, item.subject, item.experiment), b)
    IN  IF n.raised # None
        THEN [built |-> <<>>, append |-> <<>>, raised |-> n.raised, checks |-> <<>>]
        ELSE
        LET c == check(n.obj[1], k)
            importer == c.self
        IN  [built |-> <<importer>>,
             append |-> IF c.ret = "True" \/ importer.errored THEN <<importer>> ELSE <<>>,
             raised |-> None, checks |-> <<c.invoked>>]

\* One iteration of the inner loop of Automator.add_future_events_importers
add_future_events_importers(idx, item, b, k) ==
    LET n == Importer(BUILD_EVENTS, future_kwargs(idx, item.subject, item.experiment), b)
    IN  IF n.raised # None
        THEN [built |-> <<>>, append |-> <<>>, raised |-> n.raised, checks |-> <<>>]
        ELSE
        LET c == check(n.obj[1], k)
            importer == c.self
        IN  [built |-> <<importer>>,
             append |-> IF c.ret = "True" THEN <<importer>> ELSE <<>>,
             raised |-> None, checks |-> <<c.invoked>>]

\* how Python 2 orders the values of an attribute: False < True, None below
\* both, strings in string order
ValueRank(attribute, value) ==
    IF attribute = "subject"
    THEN CHOOSE i \in DOMAIN SubjectOrder : SubjectOrder[i] = value
    ELSE IF attribute = "_should_transfer"
    THEN CASE value = "None" -> 0 [] value = "False" -> 1 [] value = "True" -> 2
    ELSE IF value THEN 1 ELSE 0

\* list < list in Python: the first differing element decides (the lists
\* compared here have the same length)
ListLess(a, b) ==
    \E i \in DOMAIN a : a[i] < b[i] /\ \A j \in 1 .. i - 1 : a[j] = b[j]

\* sorted(items, key=...): ascending in keys[i], the key of items[i]; items
\* with equal keys keep their order.  Each <<key, item>> pair is inserted, in
\* the order of items, behind the pairs whose key is not greater.
RECURSIVE insert(_, _)
insert(x, s) ==
    IF s = <<>> THEN <<x>>
    ELSE IF ListLess(x[1], Head(s)[1]) THEN <<x>> \o s
    ELSE <<Head(s)>> \o insert(x, Tail(s))
RECURSIVE sort_pairs(_)
sort_pairs(s) ==
    IF s = <<>> THEN <<>>
    ELSE insert(s[Len(s)], sort_pairs(SubSeq(s, 1, Len(s) - 1)))
sorted(items, keys) ==
    LET s == sort_pairs([i \in DOMAIN items |-> <<keys[i], items[i]>>])
    IN  [i \in DOMAIN s |-> s[i][2]]

\* Automator.sorted_importers sorting by subject alone
sorted_importers_by_subject(self_importers) ==
    [ret |-> sorted(self_importers,
                    [i \in DOMAIN self_importers |->
                        <<ValueRank("subject", self_importers[i].subject)>>]),
     importers |-> self_importers]

\* Automator.sorted_importers with reverse=True
sorted_importers_descending(self_importers) ==
    LET order == <<"initialized", "errored", "_should_transfer", "transferred",
                   "processed", "subject">>
    IN  [ret |-> sorted(self_importers,
                        [i \in DOMAIN self_importers |->
                            [o \in DOMAIN order |->
                                0 - ValueRank(order[o], self_importers[i][order[o]])]]),
         importers |-> self_importers]

\* Automator.sorted_importers: the list returned and self.importers after the
\* call; the key reads imp.__dict__, not the should_transfer property
sorted_importers(self_importers) ==
    LET order == <<"initialized", "errored", "_should_transfer", "transferred",
                   "processed", "subject">>
    IN  [ret |-> sorted(self_importers,
                        [i \in DOMAIN self_importers |->
                            [o \in DOMAIN order |->
                                ValueRank(order[o], self_importers[i][order[o]])]]),
         importers |-> self_importers]

\* 'No Importers' and the delimiter line between two descriptions; a text is
\* the sequence of its lines, a line a pair like those of Importer.describe
NoImporters == << <<"No Importers", "">> >>
Delimiter == <<"---------------", "">>

\* delimiter.join(texts)
RECURSIVE join(_, _)
join(delimiter, texts) ==
    IF texts = <<>> THEN <<>>
    ELSE IF Len(texts) = 1 THEN texts[1]
    ELSE texts[1] \o <<delimiter>> \o join(delimiter, Tail(texts))

\* the positions of self.importers whose should_transfer property would enter
\* check(): the condition of line 113
Unchecked(self_importers) ==
    {i \in DOMAIN self_importers :
        self_importers[i].initialized /\ self_importers[i]._should_transfer = "None"}

\* what transferer.check_checksums() does for the Importer at position i, if
\* describe() asks it
ChecksumAt(checksums, i) == IF i \in DOMAIN checksums THEN checksums[i] ELSE "True"

\* importer.describe() for the Importers at positions i and up of a list: what
\* each call returns and does to its Importer
RECURSIVE describe_each(_, _, _)
describe_each(self_importers, checksums, i) ==
    IF i > Len(self_importers) THEN <<>>
    ELSE <<describe(self_importers[i], ChecksumAt(checksums, i))>>
         \o describe_each(self_importers, checksums, i + 1)

\* the texts of the descriptions d of the list self_importers, taken in the
\* order of the list sorted_ret, which holds the same Importers
RECURSIVE texts_in(_, _, _)
texts_in(d, self_importers, sorted_ret) ==
    IF sorted_ret = <<>> THEN <<>>
    ELSE LET i == CHOOSE i \in DOMAIN self_importers : self_importers[i] = Head(sorted_ret)
         IN  <<d[i].ret>> \o texts_in(d, self_importers, Tail(sorted_ret))

\* the loop and the join of Automator.describe; s is what sorted_importers()
\* returned and left of self.importers
joined(s, d) ==
    [ret |-> join(Delimiter, texts_in(d, s.importers, s.ret)),
     importers |-> [i \in DOMAIN d |-> d[i].self],
     invoked |-> [i \in DOMAIN d |-> d[i].invoked]]
described(s, checksums) == joined(s, describe_each(s.importers, checksums, 1))

\* Automator.describe without the test for an empty list
Automator_describe_no_sentinel(self_importers, checksums) ==
    described(sorted_importers(self_importers), checksums)

\* Automator.describe: the text returned, self.importers after the call (the
\* Importers described are the objects in the list, so what describe() does to
\* one shows there), and for each position whether check_checksums() was entered
Automator_describe(self_importers, checksums) ==
    IF self_importers = <<>>
    THEN [ret |-> NoImporters, importers |-> self_importers, invoked |-> <<>>]
    ELSE described(sorted_importers(self_importers), checksums)

(***************************************************************************)
(* Spec: automator = Automator('r1'); automator.populate_importers();      *)
(* automator.run_all_imports().  A loop iteration is one step.             *)
(***************************************************************************)
\* the items of the loop the program is in
Items ==
    CASE pc = "events" -> session_indexes(index)
      [] pc = "montage" -> montage_items(index)
      [] pc = "future" -> future_items(index)
      [] pc = "run" -> importers
      [] OTHER -> <<>>

\* populate_importers calls the three phases in this order
PhaseAfter(p) ==
    CASE p = "events" -> "montage"
      [] p = "montage" -> "future"
      [] p = "future" -> "populated"
      [] p = "populated" -> "run"
      [] p = "run" -> "ran"

\* how many of the outcomes are exceptions raised by a collaborator that was
\* really called
RECURSIVE Faults(_, _)
Faults(outcomes, called) ==
    IF outcomes = <<>> THEN 0
    ELSE (IF Head(outcomes) \in Exceptions /\ Head(called) THEN 1 ELSE 0)
         + Faults(Tail(outcomes), Tail(called))

Count(flags) == Cardinality({i \in DOMAIN flags : flags[i]})

InitAutomator ==
    /\ index \in Indexes
    /\ importers = <<>>
    /\ pc = "events"
    /\ cur = 1
    /\ raised = None
    /\ imp = <<>>
    /\ calls = NoCalls
    /\ last = NoCall

\* what a loop iteration of populate_importers leaves behind
Enumerated(op, item, r, outcomes, called) ==
    /\ Faults(outcomes, called) <= MaxFaults - calls.faults
    /\ importers' = importers \o r.append
    /\ raised' = r.raised
    /\ pc' = IF r.raised # None THEN "aborted" ELSE pc
    /\ cur' = cur + 1
    /\ calls' = [calls EXCEPT !.builder = @ + Len(r.built),
                              !.check_checksums = @ + Count(r.checks),
                              !.faults = @ + Faults(outcomes, called)]
    /\ last' = [op |-> op, arg |-> item, built |-> r.built, size |-> Len(importers)]
    /\ UNCHANGED <<index, imp>>

AddExistingEvents ==
    /\ pc = "events"
    /\ cur <= Len(Items)
    /\ \E b1, b2 \in BuilderOutcomes, k1, k2 \in ChecksumOutcomes :
         LET r == add_existing_events_importers(index, Items[cur], b1, k1, b2, k2)
             n == Len(r.built)
         IN  Enumerated("add_existing_events_importers", Items[cur], r,
                        <<b1, k1, b2, k2>>,
                        <<n >= 1, n >= 1 /\ r.checks[1], n >= 2, n >= 2 /\ r.checks[2]>>)

AddExistingMontage ==
    /\ pc = "montage"
    /\ cur <= Len(Items)
    /\ \E b \in BuilderOutcomes, k \in ChecksumOutcomes :
         LET r == add_existing_montage_importers(index, Items[cur], b, k)
         IN  Enumerated("add_existing_montage_importers", Items[cur], r,
                        <<b, k>>, <<Len(r.built) >= 1, Len(r.built) >= 1 /\ r.checks[1]>>)

AddFutureEvents ==
    /\ pc = "future"
    /\ cur <= Len(Items)
    /\ \E b \in BuilderOutcomes, k \in ChecksumOutcomes :
         LET r == add_future_events_importers(index, Items[cur], b, k)
         IN  Enumerated("add_future_events_importers", Items[cur], r,
                        <<b, k>>, <<Len(r.built) >= 1, Len(r.built) >= 1 /\ r.checks[1]>>)

\* one iteration of the loop of Automator.run_all_imports
RunAllImports ==
    /\ pc = "run"
    /\ cur <= Len(Items)
    /\ \E pipeline \in PipelineOutcomes :
         LET r == run(importers[cur], pipeline)
             fault == Faults(<<pipeline>>, <<r.invoked>>)
         IN  /\ fault <= MaxFaults - calls.faults
             /\ importers' = [importers EXCEPT ![cur] = r.self]
             /\ raised' = r.raised
             /\ pc' = IF r.raised # None THEN "aborted" ELSE pc
             /\ cur' = cur + 1
             /\ calls' = [calls EXCEPT !.pipeline_run = @ + (IF r.invoked THEN 1 ELSE 0),
                                       !.faults = @ + fault,
                                       !.run = Append(@, cur)]
             /\ last' = [op |-> "run", arg |-> cur, before |-> <<importers[cur]>>,
                         invoked |-> r.invoked]
    /\ UNCHANGED <<index, imp>>

\* a loop is exhausted: the method returns and the program goes on
Return ==
    /\ pc \in {"events", "montage", "future", "populated", "run"}
    /\ cur > Len(Items)
    /\ pc' = PhaseAfter(pc)
    /\ cur' = 1
    /\ last' = [op |-> "return", arg |-> pc]
    /\ UNCHANGED <<index, importers, raised, imp, calls>>

\* automator.sorted_importers(), once populate_importers() or
\* run_all_imports() has returned
SortedImporters ==
    /\ pc \in {"populated", "ran"}
    /\ LET r == sorted_importers(importers)
       IN  /\ importers' = r.importers
           /\ last' = [op |-> "sorted_importers", arg |-> pc, ret |-> r.ret,
                       before |-> importers, calls |-> calls]
    /\ UNCHANGED <<index, pc, cur, raised, imp, calls>>

\* print automator.describe(), once populate_importers() or run_all_imports()
\* has returned: the last statement of the program
Describe ==
    /\ pc \in {"populated", "ran"}
    /\ \E checksums \in [Unchecked(importers) -> ChecksumOutcomes] :
         \E r \in {Automator_describe(importers, checksums)} :
         LET fault == Faults([i \in DOMAIN r.invoked |-> ChecksumAt(checksums, i)], r.invoked)
         IN  /\ fault <= MaxFaults - calls.faults
             /\ importers' = r.importers
             /\ calls' = [calls EXCEPT !.check_checksums = @ + Count(r.invoked),
                                       !.faults = @ + fault]
             /\ last' = [op |-> "describe", arg |-> pc, ret |-> r.ret,
                         before |-> importers, calls |-> calls]
    /\ pc' = "described"
    /\ UNCHANGED <<index, cur, raised, imp>>

Next ==
    \/ AddExistingEvents \/ AddExistingMontage \/ AddFutureEvents
    \/ RunAllImports \/ Return \/ SortedImporters \/ Describe

Spec == InitAutomator /\ [][Next]_vars

(***************************************************************************)
(* Properties                                                              *)
(***************************************************************************)
\* the Importer the client holds
Imp == imp[1]
\* the Importer as it was before the most recent method call
Before == last.before[1]
OnlySlot(h, slot) == \A k \in ErrorTypes : (h.errors[k] # None) <=> (k = slot)

\* C1: run_all_imports() calls run() on every Importer of self.importers, in
\* the order of the list, whatever the pipeline runs do (succeed, raise
\* UnTransferrableException, raise something else, or there is no pipeline),
\* and no exception reaches the caller of run_all_imports().
C1_RunAllRunsEveryImporter ==
    /\ pc = "run" => /\ calls.run = [i \in 1 .. cur - 1 |-> i]
                     /\ raised = None
    /\ pc = "ran" => /\ calls.run = [i \in 1 .. Len(importers) |-> i]
                     /\ raised = None
    /\ ~(pc = "aborted" /\ last.op = "run")

\* run_all_imports() has returned after a run failed on an Importer, a run on
\* an uninitialized Importer and a successful run on a later Importer
C1_Witness ==
    /\ pc = "ran"
    /\ \E i, k \in DOMAIN importers :
         /\ i < k
         /\ importers[i].errors.processing = "IOError"
         /\ importers[k].processed
    /\ \E i, k \in DOMAIN importers :
         i < k /\ ~importers[i].initialized /\ importers[k].processed

\* C2: when check_checksums() raises inside check(), check() returns False
\* without raising and leaves _should_transfer False, the check error set and
\* errored True.
C2_FailedCheckResolvesFalse ==
    (last.op = "check" /\ last.invoked /\ last.arg \in Exceptions) =>
        /\ raised = None
        /\ last.ret = "False"
        /\ Imp._should_transfer = "False"
        /\ Imp.errors.check # None
        /\ Imp.errored

\* a first check() whose check_checksums() raised
C2_Witness ==
    /\ last.op = "check" /\ last.invoked /\ last.arg \in Exceptions
    /\ Before._should_transfer = "None"
    /\ ~Before.errored

\* C3: pipeline.run() is never entered for an Importer whose check error is
\* set: no transfer is attempted when the checksums could not be verified.
C3_NoRunAfterFailedCheck ==
    ~(last.op = "run" /\ last.invoked /\ Before.errors.check # None)

\* C4: _should_transfer = True never coexists with a check error.
C4_NoTrueWithCheckError ==
    imp # <<>> => ~(Imp._should_transfer = "True" /\ Imp.errors.check # None)

\* C5: processed implies transferred and no transfer and no processing error.
C5_ProcessedImpliesClean ==
    (imp # <<>> /\ Imp.processed) =>
        /\ Imp.transferred
        /\ Imp.errors.transfer = None
        /\ Imp.errors.processing = None

C7_RunUninitializedIsNoOp ==
    (last.op = "run" /\ ~Before.initialized) => Imp = Before

\* what the constructor leaves for a builder that raised / returned
C8_Constructed(h, builder) ==
    IF builder \in Exceptions
    THEN /\ h.errors = [k \in ErrorTypes |-> IF k = "init" THEN builder ELSE None]
         /\ ~h.initialized
         /\ h.errored
         /\ h.pipeline = None
         /\ h.transferer = None
    ELSE /\ h.initialized
         /\ \A k \in ErrorTypes : h.errors[k] = None

\* C8 as stated: a constructor call with a registered type never raises,
\* whatever the identity parameters and the builder; a builder exception ends
\* in the init slot of an uninitialized, errored Importer without pipeline, a
\* builder success in an initialized Importer without errors.
C8_ConstructionNeverRaises ==
    (last.op = "Importer" /\ last.arg[1] \in DOMAIN PIPELINE_BUILDERS) =>
        /\ raised = None
        /\ imp # <<>>
        /\ C8_Constructed(Imp, last.arg[3])

\* C8 amended: the same for identity parameters that name a subject.
C8_ConstructionWithSubjectNeverRaises ==
    (last.op = "Importer" /\ last.arg[1] \in DOMAIN PIPELINE_BUILDERS /\ last.arg[2]) =>
        /\ raised = None
        /\ imp # <<>>
        /\ C8_Constructed(Imp, last.arg[3])

\* a constructor call with a registered type whose builder raised
C8_Witness ==
    /\ last.op = "Importer" /\ last.arg[1] = CONVERT_EPHYS /\ last.arg[2]
    /\ last.arg[3] = "IOError"
    /\ imp # <<>> /\ Imp.errors.init = "IOError"

\* C9: a constructor call with an unregistered type raises to the caller
\* before the builder is called and before there is an Importer, and nothing
\* is added to a collection.
C9_UnregisteredTypeRaises ==
    (last.op = "Importer" /\ last.arg[1] \notin DOMAIN PIPELINE_BUILDERS) =>
        /\ raised = "UnTransferrableException"
        /\ imp = <<>>
        /\ ~last.invoked
        /\ calls.builder = 0
        /\ importers = <<>>

\* a constructor call with type 6 raised
C9_Witness ==
    /\ last.op = "Importer" /\ last.arg[1] = 6 /\ last.arg[2]
    /\ raised # None

\* C10: when both the BUILD_EVENTS and the CONVERT_EVENTS Importer of a
\* session are errored, the iteration appends exactly one Importer to
\* self.importers, the BUILD_EVENTS one.
C10_BothErroredKeepsBuildEvents ==
    (/\ last.op = "add_existing_events_importers"
     /\ Len(last.built) = 2
     /\ last.built[1].errored /\ last.built[2].errored) =>
        /\ Len(importers) = last.size + 1
        /\ importers[Len(importers)] = last.built[1]
        /\ last.built[1].type = BUILD_EVENTS
        /\ last.built[2].type = CONVERT_EVENTS

\* a session whose BUILD_EVENTS Importer has a check error and whose
\* CONVERT_EVENTS Importer has an init error
C10_Witness ==
    /\ last.op = "add_existing_events_importers"
    /\ Len(last.built) = 2
    /\ last.built[1].errors.check = "IOError" /\ last.built[1].initialized
    /\ last.built[2].errors.init # None
    /\ Len(importers) = last.size + 1

\* the most recent step was an iteration of add_existing_events_importers
ExistingStep == last.op = "add_existing_events_importers"
\* the iteration appended nothing / exactly the Importer h
AppendedNothing == Len(importers) = last.size
AppendedOnly(h) == Len(importers) = last.size + 1 /\ importers[Len(importers)] = h

\* C11: when the check() of a session's BUILD_EVENTS Importer is negative and
\* the Importer has no error, nothing is appended for the session and no
\* CONVERT_EVENTS Importer is built.
C11_UnchangedSessionDiscarded ==
    (/\ ExistingStep
     /\ Len(last.built) >= 1
     /\ last.built[1]._should_transfer = "False"
     /\ ~last.built[1].errored) =>
        /\ AppendedNothing
        /\ Len(last.built) = 1
        /\ last.built[1].type = BUILD_EVENTS

\* a session whose BUILD_EVENTS Importer was built, checked negative without
\* error, after an earlier session had been retained
C11_Witness ==
    /\ ExistingStep
    /\ Len(last.built) = 1
    /\ last.built[1].initialized
    /\ last.built[1]._should_transfer = "False"
    /\ ~last.built[1].errored
    /\ last.size = 1

\* C12: when the BUILD_EVENTS Importer is errored and the check() of the
\* CONVERT_EVENTS Importer is negative without error, neither is appended.
C12_ConvertUnchangedDiscardsBoth ==
    (/\ ExistingStep
     /\ Len(last.built) = 2
     /\ last.built[1].errored
     /\ last.built[2]._should_transfer = "False"
     /\ ~last.built[2].errored) =>
        AppendedNothing

\* a session whose BUILD_EVENTS Importer has an init error and whose
\* CONVERT_EVENTS Importer checked negative without error
C12_Witness ==
    /\ ExistingStep
    /\ Len(last.built) = 2
    /\ last.built[1].errors.init # None
    /\ last.built[2].initialized
    /\ last.built[2]._should_transfer = "False"
    /\ ~last.built[2].errored
    /\ AppendedNothing

\* C13: a CONVERT_EVENTS Importer is built only when the BUILD_EVENTS
\* Importer of the session is errored, with the same identity parameters; when
\* it has no error and its check() is positive, it alone is appended.
C13_ConvertIsTheFallback ==
    (ExistingStep /\ Len(last.built) >= 1) =>
        /\ last.built[1].type = BUILD_EVENTS
        /\ Len(last.built) <= 2
        /\ Len(last.built) = 2 =>
              /\ last.built[1].errored
              /\ last.built[2].type = CONVERT_EVENTS
              /\ last.built[2].kwargs = last.built[1].kwargs
              /\ (~last.built[2].errored /\ last.built[2]._should_transfer = "True")
                    => AppendedOnly(last.built[2])

\* a session whose BUILD_EVENTS Importer has a check error and whose
\* CONVERT_EVENTS Importer checked positive without error
C13_Witness ==
    /\ ExistingStep
    /\ Len(last.built) = 2
    /\ last.built[1].errors.check # None
    /\ ~last.built[2].errored
    /\ last.built[2]._should_transfer = "True"
    /\ importers[Len(importers)].type = CONVERT_EVENTS

\* the most recent step was an iteration of add_future_events_importers
FutureStep == last.op = "add_future_events_importers"

\* the destination two Importers write to is the same: the montage of a
\* subject, or the session of an experiment of a subject
SameDestination(a, b) ==
    /\ a.subject = b.subject
    /\ (a.type = MONTAGE) = (b.type = MONTAGE)
    /\ IF a.type = MONTAGE
       THEN a.kwargs.montage = b.kwargs.montage
       ELSE /\ a.kwargs.new_experiment = b.kwargs.new_experiment
            /\ a.kwargs.session = b.kwargs.session

\* C14: after populate_importers() no two Importers of self.importers have
\* the same destination: at most one MONTAGE Importer per (subject, montage)
\* and at most one events Importer per (subject, experiment, session), the
\* three phases taken together.
C14_OneImporterPerDestination ==
    pc \in {"populated", "run", "ran"} =>
        \A i, j \in DOMAIN importers :
            i < j => ~SameDestination(importers[i], importers[j])

\* C15: the future phase builds one BUILD_EVENTS Importer for every pair of
\* a subject and an experiment of EXPERIMENTS[protocol] (FR1 .. PS3 for r1),
\* with new_experiment the experiment, and no other Importer.
C15_FutureCoversProtocolExperiments ==
    /\ pc = "future" =>
          Len(Items) = Len(subjects(index)) * Len(EXPERIMENTS[protocol])
    /\ FutureStep =>
          /\ In(last.arg.experiment, EXPERIMENTS[protocol])
          /\ Len(last.built) = 1
          /\ last.built[1].type = BUILD_EVENTS
          /\ last.built[1].kwargs.new_experiment = last.arg.experiment

\* the session records of the step's subject and experiment under the
\* subject's latest montage
LatestRecords ==
    LET own == {r \in index : r.subject = last.arg.subject}
        latest == CHOOSE m \in {r.montage : r \in own} :
                      \A r \in own : \E i, j \in DOMAIN MontageOrder :
                          MontageOrder[i] = r.montage /\ MontageOrder[j] = m /\ i <= j
    IN  {r \in own : r.montage = latest /\ r.experiment = last.arg.experiment}

\* C16: the Importer of the future phase has session 0, original_session 0
\* and the current experiment as original experiment when there is no session
\* of the experiment under the subject's latest montage; with latest session N
\* it has session N + 1, the original_session recorded for N plus one (N + 1
\* when none is recorded) and the original_experiment recorded for N (the
\* current experiment when none is recorded).
C16_FutureSessionNumbers ==
    (FutureStep /\ Len(last.built) = 1) =>
        LET kwargs == last.built[1].kwargs
        IN  IF LatestRecords = {}
            THEN /\ kwargs.session = 0
                 /\ kwargs.original_session = 0
                 /\ kwargs.experiment = last.arg.experiment
            ELSE LET rN == CHOOSE r \in LatestRecords :
                               \A q \in LatestRecords : q.session <= r.session
                 IN  /\ kwargs.session = rN.session + 1
                     /\ kwargs.original_session =
                            IF "original_session" \in DOMAIN rN
                            THEN rN.original_session + 1
                            ELSE rN.session + 1
                     /\ kwargs.experiment =
                            IF "original_experiment" \in DOMAIN rN
                            THEN rN.original_experiment
                            ELSE last.arg.experiment

\* a future Importer after a latest session 2 that was remapped from session
\* 0 of FR1
C16_Witness ==
    /\ FutureStep
    /\ Len(last.built) = 1
    /\ last.built[1].kwargs.session = 3
    /\ last.built[1].kwargs.original_session = 1
    /\ last.built[1].kwargs.experiment = "FR1"
    /\ last.built[1].kwargs.new_experiment = last.arg.experiment

\* the most recent step was an iteration of add_existing_montage_importers
MontageStep == last.op = "add_existing_montage_importers"

\* C17: the montage phase builds one MONTAGE Importer for every (subject,
\* montage) pair of the index and appends it if and only if its check() is
\* positive, or it is errored, or INCLUDE_TRANSFERRED is set; with the flag
\* off an Importer without error and with a negative check is not appended.
C17_MontageKeptIffChangedOrErrored ==
    /\ pc = "montage" =>
          /\ {Items[i] : i \in DOMAIN Items}
                = {[subject |-> r.subject, montage |-> r.montage] : r \in index}
          /\ \A i, j \in DOMAIN Items : Items[i] = Items[j] => i = j
    /\ MontageStep =>
          /\ Len(last.built) = 1
          /\ last.built[1].type = MONTAGE
          /\ last.built[1].kwargs.subject = last.arg.subject
          /\ last.built[1].kwargs.montage = last.arg.montage
          /\ IF \/ last.built[1]._should_transfer = "True"
                \/ last.built[1].errored
                \/ INCLUDE_TRANSFERRED
             THEN AppendedOnly(last.built[1])
             ELSE AppendedNothing

\* a MONTAGE Importer with a check error was appended after a MONTAGE
\* Importer of the same subject with a negative check was not
C17_Witness ==
    /\ MontageStep
    /\ cur = 3
    /\ last.built[1].initialized
    /\ last.built[1].errors.check # None
    /\ last.built[1]._should_transfer = "False"
    /\ AppendedOnly(last.built[1])
    /\ \A i \in 1 .. last.size : importers[i].type # MONTAGE

\* the phase of populate_importers that appended the Importer: 1 montage,
\* 2 existing sessions (do_compare), 3 future sessions
PhaseOf(h) == IF h.type = MONTAGE THEN 1 ELSE IF h.kwargs.do_compare THEN 2 ELSE 3

\* C18: populate_importers() runs the montage phase, then the existing-session
\* phase, then the future-session phase: in self.importers every MONTAGE
\* Importer precedes every Importer of an existing session, which precedes
\* every Importer of a future session.
C18_MontageThenExistingThenFuture ==
    pc \in {"populated", "run", "ran"} =>
        \A i, j \in DOMAIN importers :
            i < j => PhaseOf(importers[i]) <= PhaseOf(importers[j])

\* the most recent step was a call of sorted_importers()
SortedStep == last.op = "sorted_importers"

\* C19 as stated: in the list sorted_importers() returns, every Importer that
\* is not initialized or is errored comes before every Importer that is
\* initialized and has no error.
C19_ProblemsSortFirst ==
    SortedStep =>
        \A i, j \in DOMAIN last.ret :
            (/\ ~last.ret[i].initialized \/ last.ret[i].errored
             /\ last.ret[j].initialized /\ ~last.ret[j].errored) => i < j

\* C19 amended: every Importer that is not initialized comes before every
\* initialized Importer, and among the initialized Importers those without
\* error come before the errored ones.
C19_UninitializedFirstThenClean ==
    SortedStep =>
        \A i, j \in DOMAIN last.ret :
            /\ (~last.ret[i].initialized /\ last.ret[j].initialized) => i < j
            /\ (/\ last.ret[i].initialized /\ ~last.ret[i].errored
                /\ last.ret[j].initialized /\ last.ret[j].errored) => i < j

\* sorted_importers() returned an uninitialized Importer, then one without
\* error, then an initialized errored one, from a list in another order
C19_Witness ==
    /\ SortedStep
    /\ Len(last.ret) >= 3
    /\ ~last.ret[1].initialized
    /\ last.ret[2].initialized /\ ~last.ret[2].errored
    /\ last.ret[Len(last.ret)].initialized /\ last.ret[Len(last.ret)].errored
    /\ last.ret # importers

\* the tuple (initialized, errored, should_transfer, transferred, processed,
\* subject) as numbers: false 0, true 1 (unknown below both), subjects by name
C20_Flag(b) == IF b THEN 1 ELSE 0
C20_Tuple(h) ==
    << C20_Flag(h.initialized), C20_Flag(h.errored),
       IF h._should_transfer = "None" THEN 0 - 1 ELSE C20_Flag(h._should_transfer = "True"),
       C20_Flag(h.transferred), C20_Flag(h.processed),
       IF h.subject = "R1001P" THEN 1 ELSE 2 >>
C20_Below(s, t) ==
    \/ s[1] < t[1]
    \/ \E n \in 2 .. 6 : s[n] < t[n] /\ \A m \in 1 .. n - 1 : s[m] = t[m]

\* C20: sorted_importers() returns a permutation of self.importers in
\* non-decreasing order of the tuple, Importers with equal tuples in their
\* order in self.importers (which makes the result a function of the tuples
\* and positions alone), and the call changes neither self.importers nor an
\* Importer and enters no check_checksums().
C20_StableSortByTuple ==
    SortedStep =>
        /\ importers = last.before
        /\ calls = last.calls
        /\ \E p \in Permutations(DOMAIN importers) :
              /\ last.ret = [i \in DOMAIN importers |-> importers[p[i]]]
              /\ \A i, j \in DOMAIN importers :
                    i < j => /\ ~C20_Below(C20_Tuple(last.ret[j]), C20_Tuple(last.ret[i]))
                             /\ C20_Tuple(last.ret[i]) = C20_Tuple(last.ret[j]) => p[i] < p[j]

\* sorted_importers() moved an Importer in front of two Importers with equal
\* tuples, which kept their order
C20_Witness ==
    /\ SortedStep
    /\ Len(importers) >= 3
    /\ \E i, j, k \in DOMAIN importers :
          /\ i < j /\ j < k
          /\ C20_Tuple(importers[i]) = C20_Tuple(importers[j])
          /\ importers[i] # importers[j]
          /\ C20_Below(C20_Tuple(importers[k]), C20_Tuple(importers[i]))
          /\ last.ret[1] = importers[k]
          /\ last.ret[2] = importers[i]
          /\ last.ret[3] = importers[j]

MethodStep == last.op \in {"check", "run", "should_transfer", "describe"}

\* C21 (first half): on an initialized handle whose check() the client never
\* called, a read of should_transfer enters the transferer's checksum check
\* exactly when nothing is memoized yet, so the check has been entered exactly
\* once after any read, and a read with a memoized value returns that value.
C21_LazyOnce ==
    (last.op = "should_transfer" /\ Before.initialized /\ calls.check = 0) =>
        /\ calls.check_checksums = 1
        /\ last.invoked <=> (Before._should_transfer = "None")
        /\ (Before._should_transfer # "None") => (last.ret = Before._should_transfer)
        /\ Imp._should_transfer = last.ret
        /\ last.ret # "None"

\* C21 (second half): on an uninitialized handle a read of should_transfer does
\* not enter the check and returns unknown.
C21_UninitializedUnknown ==
    (last.op = "should_transfer" /\ ~Before.initialized) =>
        /\ ~last.invoked
        /\ last.ret = "None"

\* C21: the lazy accessor checks an initialized handle at most once (exactly once
\* at the first read) as long as check() is not called explicitly, and on an
\* uninitialized handle it never checks and returns unknown.
C21_LazyAccessor == C21_LazyOnce /\ C21_UninitializedUnknown

\* C22: every check() of a handle that has a transferer enters the transferer's
\* checksum check and stores its outcome (False when it raised) in
\* should_transfer, whatever was memoized before; a read of the accessor with a
\* memoized value returns that value without checking.
C22_CheckAlwaysRecomputes ==
    /\ (last.op = "check" /\ Before.initialized) =>
          /\ last.invoked
          /\ Imp._should_transfer = (IF last.arg \in {"True", "False"} THEN last.arg ELSE "False")
          /\ last.ret = Imp._should_transfer
    /\ (imp # <<>> /\ Imp.initialized) => calls.check_checksums >= calls.check
    /\ (last.op = "should_transfer" /\ Before._should_transfer # "None") =>
          /\ ~last.invoked
          /\ last.ret = Before._should_transfer
          /\ Imp = Before

\* a second check() overwrote a memoized False with True
C22_Witness ==
    /\ last.op = "check"
    /\ Before._should_transfer = "False"
    /\ last.arg = "True"
    /\ Imp._should_transfer = "True"
    /\ calls.check_checksums >= 2

\* C23: a handle's error slots are always exactly init, check, transfer and
\* processing, and errored is true iff one of them is non-null.
C23_ErroredIffSomeSlot ==
    imp # <<>> =>
        /\ DOMAIN Imp.errors = {"init", "check", "transfer", "processing"}
        /\ Imp.errored <=> (\E k \in {"init", "check", "transfer", "processing"} :
                               Imp.errors[k] # None)

\* a handle with a check error and a transfer error and no init error
C23_Witness ==
    /\ imp # <<>>
    /\ Imp.errored
    /\ Imp.errors["check"] # None
    /\ Imp.errors["transfer"] # None
    /\ Imp.errors["init"] = None

\* C24: a handle in the collection whose init slot is non-null has null check,
\* transfer and processing slots, in every state of the program.
C24_InitErrorExcludesOthers ==
    \A i \in 1 .. Len(importers) :
        (importers[i].errors["init"] # None) =>
            \A k \in {"check", "transfer", "processing"} : importers[i].errors[k] = None

\* C27: transferred = processed in every state of a handle, and no method call
\* on a handle that has both flags set leaves it with either flag cleared.
C27_TransferredIsProcessed ==
    imp # <<>> =>
        /\ Imp.transferred = Imp.processed
        /\ (MethodStep /\ Before.processed /\ Before.transferred) =>
              (Imp.processed /\ Imp.transferred)

\* a run() whose pipeline raised, on a handle an earlier run() had completed
C27_Witness ==
    /\ last.op = "run"
    /\ last.arg \in Exceptions
    /\ Before.processed /\ Before.transferred
    /\ Imp.processed /\ Imp.transferred
    /\ Imp.errored

\* C28: no method call turns a non-null error slot back to null or errored back
\* to false.
C28_ErrorsMonotone ==
    MethodStep =>
        /\ \A k \in {"init", "check", "transfer", "processing"} :
              (Before.errors[k] # None) => (Imp.errors[k] # None)
        /\ Before.errored => Imp.errored

\* a check() that computed the checksums on a handle with a check error
C28_Witness ==
    /\ last.op = "check"
    /\ last.invoked
    /\ last.arg \in {"True", "False"}
    /\ Before.errors["check"] # None
    /\ Imp.errors["check"] # None
    /\ Imp.errored

\* the most recent step was automator.describe()
DescribeStep == last.op = "describe" /\ last.arg \in {"populated", "ran"}

\* C25: Automator.describe() returns 'No Importers' when the collection is
\* empty; otherwise it returns the describe() texts of the Importers, in the
\* order of sorted_importers(), joined by the delimiter, which is never
\* 'No Importers'.
C25_DescribeSentinelOrJoin ==
    DescribeStep =>
        IF last.before = <<>>
        THEN last.ret = NoImporters
        ELSE \A s \in {sorted_importers(last.before).ret} :
                 /\ last.ret = join(Delimiter, [j \in DOMAIN s |-> describe(s[j], "True").ret])
                 /\ last.ret # NoImporters
                 /\ Len(last.ret) >= 3 * Len(s) + (Len(s) - 1)

\* a description of three Importers that sorted_importers() puts in another
\* order than the collection holds them
C25_Witness ==
    /\ DescribeStep
    /\ Len(last.before) = 3
    /\ sorted_importers(last.before).ret # last.before
    /\ last.ret[1][1] = sorted_importers(last.before).ret[1].label

\* a handle the future-session phase built: BUILD_EVENTS with do_compare off
FutureHandle(h) == h.type = BUILD_EVENTS /\ ~h.kwargs.do_compare

\* C26: when populate_importers() has returned, every Importer in the
\* collection has should_transfer True or False and is errored or has
\* should_transfer True; those of the future-session phase are initialized,
\* not errored and have should_transfer True.
C26_PopulatedHandlesChecked ==
    /\ pc = "populated" =>
          \A i \in DOMAIN importers :
              /\ importers[i]._should_transfer \in {"True", "False"}
              /\ importers[i].errored \/ importers[i]._should_transfer = "True"
              /\ FutureHandle(importers[i]) =>
                    /\ importers[i].initialized
                    /\ ~importers[i].errored
                    /\ importers[i]._should_transfer = "True"
    /\ (FutureStep /\ Len(importers) > last.size) =>
          /\ FutureHandle(importers[Len(importers)])
          /\ importers[Len(importers)].initialized
          /\ ~importers[Len(importers)].errored
          /\ importers[Len(importers)]._should_transfer = "True"

\* a populated collection with an errored Importer whose check was negative, an
\* error-free existing one and a future one
C26_Witness ==
    /\ pc = "populated"
    /\ \E i, j, k \in DOMAIN importers :
          /\ importers[i].errored /\ importers[i]._should_transfer = "False"
          /\ ~importers[j].errored /\ ~FutureHandle(importers[j])
          /\ FutureHandle(importers[k])

\* C29: Automator.describe() after populate_importers() or run_all_imports()
\* leaves the collection (its Importers, their state and their order) as it was
\* and enters no check_checksums() and no pipeline run().
C29_DescribeChangesNothing ==
    DescribeStep =>
        /\ importers = last.before
        /\ calls = last.calls

\* a description after run_all_imports() of a collection holding an Importer
\* that ran and one that never initialized
C29_Witness ==
    /\ DescribeStep
    /\ last.arg = "ran"
    /\ \E i, j \in DOMAIN importers :
          /\ importers[i].initialized /\ importers[i].processed
          /\ ~importers[j].initialized

====
